---------------------------- MODULE Spec2Model ----------------------------
(***************************************************************************)
(* A model of gao_bid_protests.py: the text normalizer, the link collector *)
(* of a result-index page, the page fetcher get_html with its escalating   *)
(* recovery, and the pipeline driver run().                                *)
(*                                                                         *)
(* The module holds seven specifications over one set of variables:        *)
(*   SpecNorm   normalize_text applied once and twice to a bounded text    *)
(*   SpecSplit  split_sections applied to a text made of a few lines       *)
(*   SpecClean  clean_report_text, then split_sections, on such a text     *)
(*   SpecLinks  collect_result_links_from_page, one anchor per step        *)
(*   SpecGet    one call of get_html, one request per step                 *)
(*   Spec       run(), one step per statement group between the points     *)
(*              where an interrupt or an error can land                    *)
(*   SpecCrawl  the loop of run() with no budget set, followed for the     *)
(*              pages it visits only, under weak fairness                  *)
(* Each specification leaves the variables of the others untouched.        *)
(***************************************************************************)
EXTENDS Integers, Sequences, FiniteSets, TLC

VARIABLES
    \* normalize_text
    n_pc, n_in, n_once, n_twice,
    \* collect_result_links_from_page
    l_pc, l_anchors, l_i, l_links, l_seen,
    \* get_html
    g, g_session0,
    \* run
    pc, upto, max_pages, site, page_url, page_num, soup, links, li, cur,
    records, processed, csv, xlsx, partial, how, pageFetches, offered,
    taken, snap, finalFlushes,
    \* split_sections
    s_pc, s_in, s_ft, s_out,
    \* clean_report_text
    c_pc, c_in, c_out, c_sections,
    \* the loop of run(), pages only
    k_pc, k_site, k_page_url, k_soup, k_links, k_li

normVars == <<n_pc, n_in, n_once, n_twice>>
linkVars == <<l_pc, l_anchors, l_i, l_links, l_seen>>
getVars  == <<g, g_session0>>
runVars  == <<pc, upto, max_pages, site, page_url, page_num, soup, links, li,
              cur, records, processed, csv, xlsx, partial, how, pageFetches,
              offered, taken, snap, finalFlushes>>
splitVars == <<s_pc, s_in, s_ft, s_out>>
cleanVars == <<c_pc, c_in, c_out, c_sections>>
crawlVars == <<k_pc, k_site, k_page_url, k_soup, k_links, k_li>>
vars     == <<normVars, linkVars, getVars, runVars, splitVars, cleanVars,
              crawlVars>>

(***************************************************************************)
(* Bounds of the model.                                                    *)
(***************************************************************************)
MaxLen == 7
MaxAnchors == 3
NumPages == 2
MaxUpto == 2
MaxPagesArg == 2
MaxRecords == 3
MaxLines == 3

(***************************************************************************)
(* Text.  A text is a sequence of characters.  The texts normalize_text is *)
(* followed on are over one word character, the hyphen, the newline, the   *)
(* carriage return and the space.  \w is a letter or a digit (no text of   *)
(* the model has an underscore); \s is IsSpace.                            *)
(***************************************************************************)
Upper ==
    {"A", "B", "C", "D", "E", "F", "G", "H", "I", "J", "K", "L", "M", "N",
     "O", "P", "Q", "R", "S", "T", "U", "V", "W", "X", "Y", "Z"}

Lower ==
    {"a", "b", "c", "d", "e", "f", "g", "h", "i", "j", "k", "l", "m", "n",
     "o", "p", "q", "r", "s", "t", "u", "v", "w", "x", "y", "z"}

Digits == {"0", "1", "2", "3", "4", "5", "6", "7", "8", "9"}

Chars == {"a", "-", "\n", "\r", " "}

IsWord(ch) == ch \in Lower \cup Upper \cup Digits

IsSpace(ch) == ch \in {"\n", "\r", " "}

Texts == UNION {[1..n -> Chars] : n \in 0..MaxLen}

Max(S) == CHOOSE x \in S : \A y \in S : y <= x

Min(S) == CHOOSE x \in S : \A y \in S : x <= y

\* txt.replace("\r", "")
DropCR(t) == SelectSeq(t, LAMBDA ch : ch # "\r")

\* re.sub(r"(\w)-\n(\w)", r"\1\2", txt): one left-to-right scan; a match
\* consumes its four characters, and the scan goes on after them.
RECURSIVE Dehyphenate(_)
Dehyphenate(t) ==
    LET ms == {i \in 1..(Len(t) - 3) :
                 /\ IsWord(t[i]) /\ t[i + 1] = "-"
                 /\ t[i + 2] = "\n" /\ IsWord(t[i + 3])}
    IN  IF ms = {} THEN t
        ELSE LET i == Min(ms)
             IN  SubSeq(t, 1, i) \o <<t[i + 3]>>
                 \o Dehyphenate(SubSeq(t, i + 4, Len(t)))

\* The length of the run of newlines that t starts with.
RECURSIVE NewlineRun(_)
NewlineRun(t) ==
    IF t = <<>> \/ Head(t) # "\n" THEN 0 ELSE 1 + NewlineRun(Tail(t))

\* re.sub(r"\n{3,}", "\n\n", txt): every maximal run of three or more
\* newlines becomes two newlines.
RECURSIVE CollapseNewlines(_)
CollapseNewlines(t) ==
    LET ms == {i \in 1..(Len(t) - 2) :
                 t[i] = "\n" /\ t[i + 1] = "\n" /\ t[i + 2] = "\n"}
    IN  IF ms = {} THEN t
        ELSE LET i == Min(ms)
                 k == NewlineRun(SubSeq(t, i, Len(t)))
             IN  SubSeq(t, 1, i - 1) \o <<"\n", "\n">>
                 \o CollapseNewlines(SubSeq(t, i + k, Len(t)))

RECURSIVE LStrip(_)
LStrip(t) ==
    IF t # <<>> /\ IsSpace(Head(t)) THEN LStrip(Tail(t)) ELSE t

RECURSIVE RStrip(_)
RStrip(t) ==
    IF t # <<>> /\ IsSpace(t[Len(t)]) THEN RStrip(SubSeq(t, 1, Len(t) - 1))
    ELSE t

\* str.strip()
Strip(t) == RStrip(LStrip(t))

normalize_text(txt) ==
    IF txt = <<>> THEN <<>>
    ELSE Strip(CollapseNewlines(Dehyphenate(DropCR(txt))))

(***************************************************************************)
(* Pieces of the patterns of clean_report_text and split_sections.         *)
(***************************************************************************)
\* [A-Z0-9], the first character of CAPS_LINE.
CapFirst(ch) == ch \in Upper \cup Digits

\* [A-Z0-9\s'()/\-,.:;], the characters CAPS_LINE goes on with.
CapRest(ch) ==
    \/ CapFirst(ch)
    \/ IsSpace(ch)
    \/ ch \in {"'", "(", ")", "/", "-", ",", ".", ":", ";"}

\* (?m)^ at position i: i is the index of the next character.
AtLineStart(t, i) == i = 1 \/ t[i - 1] = "\n"

\* (?m)$ at position i.
AtLineEnd(t, i) == i = Len(t) + 1 \/ t[i] = "\n"

\* The literal h stands in t at position i.
HasAt(t, i, h) ==
    /\ i + Len(h) - 1 <= Len(t)
    /\ SubSeq(t, i, i + Len(h) - 1) = h

\* The length of the run of \s characters of t from position i.
RECURSIVE SpaceRun(_, _)
SpaceRun(t, i) ==
    IF i <= Len(t) /\ IsSpace(t[i]) THEN 1 + SpaceRun(t, i + 1) ELSE 0

\* The length of the run of CapRest characters of t from position i, at
\* most max of them.
CapRun(t, i, max) ==
    Max({k \in 0..max :
           \A j \in 0..(k - 1) : i + j <= Len(t) /\ CapRest(t[i + j])})

\* \s*$ from position e: greedy, giving back one character at a time until
\* the line ends there.  The position after the match, or 0 without one.
TrailEnd(t, e) ==
    LET js == {j \in 0..SpaceRun(t, e) : AtLineEnd(t, e + j)}
    IN  IF js = {} THEN 0 ELSE e + Max(js)

(***************************************************************************)
(* split_sections.  A mapping is the sequence of its entries [name, body]  *)
(* in the order of insertion; names and bodies are texts.                  *)
(***************************************************************************)
KNOWN_ORDER ==
    << <<"D", "I", "G", "E", "S", "T">>,
       <<"B", "A", "C", "K", "G", "R", "O", "U", "N", "D">>,
       <<"D", "I", "S", "C", "U", "S", "S", "I", "O", "N">>,
       <<"D", "E", "C", "I", "S", "I", "O", "N">>,
       <<"C", "O", "N", "C", "L", "U", "S", "I", "O", "N">>,
       <<"R", "E", "C", "O", "M", "M", "E", "N", "D", "A", "T", "I", "O", "N">>,
       <<"C", "O", "N", "C", "L", "U", "S", "I", "O", "N", "S">>,
       <<"R", "E", "C", "O", "M", "M", "E", "N", "D", "A", "T", "I", "O", "N", "S">> >>

\* The quantifier {3,40} of CAPS_LINE.
CapsMin == 3
CapsMax == 40

UnitedStates ==
    <<"U", " ", "N", " ", "I", " ", "T", " ", "E", " ", "D",
      " ", " ", "S", " ", "T", " ", "A", " ", "T", " ", "E", " ", "S">>

FullReportText ==
    <<"F", "u", "l", "l", " ", "R",
      "e", "p", "o", "r", "t", " ", "T", "e", "x", "t">>

\* re.search(fr"(?m)^{re.escape(h)}\s*$", ft): the start of the first
\* match, or 0 without one.
FirstLineMatch(t, h) ==
    LET is == {i \in 1..Len(t) :
                 /\ AtLineStart(t, i)
                 /\ HasAt(t, i, h)
                 /\ TrailEnd(t, i + Len(h)) # 0}
    IN  IF is = {} THEN 0 ELSE Min(is)

\* The names of a mapping.
Names(d) == {d[k].name : k \in 1..Len(d)}

\* for h in KNOWN_ORDER: ... found_positions[h] = m.start()
RECURSIVE FoundKnown(_, _)
FoundKnown(t, hs) ==
    IF hs = <<>> THEN <<>>
    ELSE LET i == FirstLineMatch(t, Head(hs))
         IN  (IF i = 0 THEN <<>> ELSE <<[name |-> Head(hs), pos |-> i]>>)
             \o FoundKnown(t, Tail(hs))

\* CAPS_LINE tried at position i: the first character, then as many of the
\* others as there are, up to CapsMax, giving back one at a time down to
\* CapsMin until the line ends there.  The characters may be newlines.
\* The position after the match, or 0 without one.
CapsEnd(t, i) ==
    IF ~(AtLineStart(t, i) /\ i <= Len(t) /\ CapFirst(t[i])) THEN 0
    ELSE LET k  == CapRun(t, i + 1, CapsMax)
             js == {j \in CapsMin..k : AtLineEnd(t, i + 1 + j)}
         IN  IF js = {} THEN 0 ELSE i + 1 + Max(js)

\* re.finditer(CAPS_LINE, ft) from position i: the matches [st, en), each
\* the first there is from where the match before it ended.
RECURSIVE CapsScan(_, _)
CapsScan(t, i) ==
    LET ms == {j \in i..Len(t) : CapsEnd(t, j) # 0}
    IN  IF ms = {} THEN <<>>
        ELSE LET st == Min(ms)
                 en == CapsEnd(t, st)
             IN  <<[st |-> st, en |-> en]>> \o CapsScan(t, en)

\* cap = m.group("cap").strip(); found_positions.setdefault(cap, m.start())
\* (cap.upper() == cap holds of every text CAPS_LINE matches).
RECURSIVE FoundCaps(_, _, _)
FoundCaps(t, ms, found) ==
    IF ms = <<>> THEN found
    ELSE LET m   == Head(ms)
             cap == Strip(SubSeq(t, m.st, m.en - 1))
         IN  FoundCaps(t, Tail(ms),
                 IF cap # UnitedStates /\ cap \notin Names(found)
                 THEN Append(found, [name |-> cap, pos |-> m.st])
                 ELSE found)

found_positions(t) == FoundCaps(t, CapsScan(t, 1), FoundKnown(t, KNOWN_ORDER))

\* x put into the sorted list after every entry that does not come later.
RECURSIVE InsertByPos(_, _)
InsertByPos(sorted, x) ==
    IF sorted = <<>> THEN <<x>>
    ELSE IF Head(sorted).pos <= x.pos
         THEN <<Head(sorted)>> \o InsertByPos(Tail(sorted), x)
         ELSE <<x>> \o sorted

\* sorted(found_positions.items(), key=lambda kv: kv[1]): a stable sort.
RECURSIVE SortByPos(_)
SortByPos(found) ==
    IF found = <<>> THEN <<>>
    ELSE InsertByPos(SortByPos(SubSeq(found, 1, Len(found) - 1)),
                     found[Len(found)])

\* rx tried at position i: the alternatives in their order, each followed
\* by \s*$.  The position after the match, or 0 without one.
RECURSIVE AltEnd(_, _, _)
AltEnd(t, i, ordered) ==
    IF ordered = <<>> THEN 0
    ELSE LET h == Head(ordered).name
             e == IF HasAt(t, i, h) THEN TrailEnd(t, i + Len(h)) ELSE 0
         IN  IF e # 0 THEN e ELSE AltEnd(t, i, Tail(ordered))

\* marks = [(m.group(0).strip(), m.start(), m.end()) for m in rx.finditer(ft)]
RECURSIVE MarkScan(_, _, _)
MarkScan(t, i, ordered) ==
    LET ms == {j \in i..Len(t) :
                 AtLineStart(t, j) /\ AltEnd(t, j, ordered) # 0}
    IN  IF ms = {} THEN <<>>
        ELSE LET st == Min(ms)
                 en == AltEnd(t, st, ordered)
             IN  <<[name |-> Strip(SubSeq(t, st, en - 1)),
                    st |-> st, en |-> en]>>
                 \o MarkScan(t, en, ordered)

marks(t) == MarkScan(t, 1, SortByPos(found_positions(t)))

\* out[name] = body
Put(d, name, body) ==
    IF name \in Names(d)
    THEN [k \in 1..Len(d) |->
            IF d[k].name = name THEN [name |-> name, body |-> body] ELSE d[k]]
    ELSE Append(d, [name |-> name, body |-> body])

\* body = ft[en:(marks[i + 1][1] if i + 1 < len(marks) else len(ft))].strip()
Body(t, ms, k) ==
    Strip(SubSeq(t, ms[k].en,
                 (IF k < Len(ms) THEN ms[k + 1].st ELSE Len(t) + 1) - 1))

\* for i, (name, st, en) in enumerate(marks): from mark k on.
RECURSIVE Bodies(_, _, _, _)
Bodies(t, ms, k, out) ==
    IF k > Len(ms) THEN out
    ELSE Bodies(t, ms, k + 1, Put(out, ms[k].name, Body(t, ms, k)))

\* A variant of Fallback that returns the text as it came.
Fallback_Raw(full_text, ft) == <<[name |-> FullReportText, body |-> full_text]>>

\* return {"Full Report Text": ft}
Fallback(full_text, ft) == <<[name |-> FullReportText, body |-> ft]>>

split_sections(full_text) ==
    LET ft == normalize_text(full_text)
    IN  IF ft = <<>> THEN <<>>
        ELSE IF found_positions(ft) = <<>> THEN Fallback(full_text, ft)
        ELSE Bodies(ft, marks(ft), 1, <<>>)

(***************************************************************************)
(* clean_report_text.  The patterns are compiled with re.IGNORECASE: a     *)
(* line is compared after its capitals were made small.  The en dash of    *)
(* the last pattern is in no text of the model.                            *)
(***************************************************************************)
UpperSeq ==
    << "A", "B", "C", "D", "E", "F", "G", "H", "I", "J", "K", "L", "M", "N",
       "O", "P", "Q", "R", "S", "T", "U", "V", "W", "X", "Y", "Z" >>

LowerSeq ==
    << "a", "b", "c", "d", "e", "f", "g", "h", "i", "j", "k", "l", "m", "n",
       "o", "p", "q", "r", "s", "t", "u", "v", "w", "x", "y", "z" >>

ToLower(ch) ==
    IF ch \in Upper
    THEN LowerSeq[CHOOSE i \in 1..Len(UpperSeq) : UpperSeq[i] = ch]
    ELSE ch

Fold(t) == [i \in 1..Len(t) |-> ToLower(t[i])]

\* The length of the run of digits of t from position i.
RECURSIVE DigitRun(_, _)
DigitRun(t, i) ==
    IF i <= Len(t) /\ t[i] \in Digits THEN 1 + DigitRun(t, i + 1) ELSE 0

\* t holds nothing but \s from position i on.
BlankFrom(t, i) == i + SpaceRun(t, i) = Len(t) + 1

\* \b after a word character: position i has no word character.
WordEndsAt(t, i) == i > Len(t) \/ ~IsWord(t[i])

Street ==
    <<"4", "4", "1", " ", "g", " ", "s", "t", ".", " ", "n", ".", "w", ".">>

WashingtonDC ==
    <<"w", "a", "s", "h", "i", "n", "g", "t", "o", "n", ",", " ", "d", "c">>

ComptrollerGeneral ==
    <<"c", "o", "m", "p", "t", "r", "o", "l", "l", "e", "r", " ", "g", "e",
      "n", "e", "r", "a", "l">>

OfTheUnitedStates ==
    <<"o", "f", " ", "t", "h", "e", " ", "u", "n", "i", "t", "e", "d", " ",
      "s", "t", "a", "t", "e", "s">>

GovernmentAccountabilityOffice ==
    <<" ", "g", "o", "v", "e", "r", "n", "m", "e", "n", "t", " ", "a", "c",
      "c", "o", "u", "n", "t", "a", "b", "i", "l", "i", "t", "y", " ", "o",
      "f", "f", "i", "c", "e">>

WwwGaoGov ==
    <<"w", "w", "w", ".", "g", "a", "o", ".", "g", "o", "v">>

PageWord == <<"p", "a", "g", "e">>

\* The quantifier {4,7} of the docket number.
DocketMin == 4
DocketMax == 7

\* \d{4,7}(\.\d+)? at position i of t: the position after it, or 0.
DocketDigitsEnd(t, i) ==
    LET d == DigitRun(t, i)
        e == i + d
        f == IF e <= Len(t) /\ t[e] = "." THEN DigitRun(t, e + 1) ELSE 0
    IN  IF d \notin DocketMin..DocketMax THEN 0
        ELSE IF f > 0 THEN e + 1 + f
        ELSE e

\* ^Page\s+\d+\s*$
IsPagePattern(f) ==
    /\ HasAt(f, 1, PageWord)
    /\ SpaceRun(f, 5) >= 1
    /\ DigitRun(f, 5 + SpaceRun(f, 5)) >= 1
    /\ BlankFrom(f, 5 + SpaceRun(f, 5) + DigitRun(f, 5 + SpaceRun(f, 5)))

\* ^B-\d{4,7}(\.\d+)?\s*$
IsDocketPattern(f) ==
    /\ HasAt(f, 1, <<"b", "-">>)
    /\ DocketDigitsEnd(f, 3) # 0
    /\ BlankFrom(f, DocketDigitsEnd(f, 3))

\* ^\s*~+\s*$|^\s*-{2,}\s*$
IsRulePattern(f) ==
    LET b == Strip(f)
    IN  /\ b # <<>>
        /\ \/ \A k \in 1..Len(b) : b[k] = "~"
           \/ Len(b) >= 2 /\ \A k \in 1..Len(b) : b[k] = "-"

\* drop_rx.search(l)
Dropped(l) ==
    LET f == Fold(l)
    IN  \/ f = Street
        \/ HasAt(f, 1, WashingtonDC) /\ WordEndsAt(f, Len(WashingtonDC) + 1)
        \/ HasAt(f, 1, ComptrollerGeneral)
             /\ WordEndsAt(f, Len(ComptrollerGeneral) + 1)
        \/ f = OfTheUnitedStates
        \/ \E us \in {<<"u", "s">>, <<"u", ".", "s">>, <<"u", "s", ".">>,
                      <<"u", ".", "s", ".">>} :
             f = us \o GovernmentAccountabilityOffice
        \/ f = WwwGaoGov
        \/ IsPagePattern(f)
        \/ IsDocketPattern(f)
        \/ IsRulePattern(f)

\* txt.split("\n")
RECURSIVE SplitOnNewline(_)
SplitOnNewline(t) ==
    LET ns == {i \in 1..Len(t) : t[i] = "\n"}
    IN  IF ns = {} THEN <<t>>
        ELSE <<SubSeq(t, 1, Min(ns) - 1)>>
             \o SplitOnNewline(SubSeq(t, Min(ns) + 1, Len(t)))

\* "\n".join(ls)
RECURSIVE JoinLines(_)
JoinLines(ls) ==
    IF ls = <<>> THEN <<>>
    ELSE IF Len(ls) = 1 THEN ls[1]
    ELSE ls[1] \o <<"\n">> \o JoinLines(Tail(ls))

\* lines = [l.rstrip() for l in txt.split("\n")]
RStripped(ls) == [k \in 1..Len(ls) |-> RStrip(ls[k])]

\* kept = [l for l in lines if not drop_rx.search(l)]
Kept(ls) == SelectSeq(ls, LAMBDA l : ~Dropped(l))

\* \n\s*B-\d{4,7}(\.\d+)?\s*\n tried from the newline at position i: the
\* position after the match, or 0 without one.  The pattern is compiled
\* without re.IGNORECASE.
IndentedDocketEnd(t, i) ==
    IF ~(i <= Len(t) /\ t[i] = "\n") THEN 0
    ELSE LET j == i + 1 + SpaceRun(t, i + 1)
             e == IF HasAt(t, j, <<"B", "-">>)
                  THEN DocketDigitsEnd(t, j + 2) ELSE 0
             ns == {n \in e..(e + SpaceRun(t, e) - 1) : t[n] = "\n"}
         IN  IF e = 0 \/ ns = {} THEN 0 ELSE Max(ns) + 1

\* re.sub(r"\n\s*B-\d{4,7}(\.\d+)?\s*\n", "\n", txt2): one left-to-right
\* scan, each match replaced by one newline.
RECURSIVE DropIndentedDockets(_)
DropIndentedDockets(t) ==
    LET ms == {i \in 1..Len(t) : IndentedDocketEnd(t, i) # 0}
    IN  IF ms = {} THEN t
        ELSE LET i == Min(ms)
             IN  SubSeq(t, 1, i - 1) \o <<"\n">>
                 \o DropIndentedDockets(
                        SubSeq(t, IndentedDocketEnd(t, i), Len(t)))

clean_report_text(txt) ==
    IF txt = <<>> THEN <<>>
    ELSE normalize_text(
             DropIndentedDockets(
                 JoinLines(Kept(RStripped(SplitOnNewline(txt))))))

(***************************************************************************)
(* Links of a result-index page.  An href is a record: its form ("rel": it *)
(* starts with "/", "abs": it starts with the site's origin, "none": it    *)
(* has no "/products/" in it) and the document it names.  Prefixing a      *)
(* relative href with the origin gives the absolute href of that document. *)
(***************************************************************************)
Docs == {1, 2}

Hrefs == [form : {"rel", "abs", "none"}, doc : Docs]

Anchors == [href : Hrefs, title : BOOLEAN]

AnchorLists == UNION {[1..n -> Anchors] : n \in 0..MaxAnchors}

\* "https://www.gao.gov" + href
Absolute(href) == [form |-> "abs", doc |-> href.doc]

\* One pass of the loop body over anchor a; st = [links, seen].
\* The test reads the href as the anchor carries it; the set gets the href
\* after it was made absolute.
LinkBody(st, a) ==
    IF a.href.form # "none" /\ a.title /\ a.href \notin st.seen
    THEN LET href == IF a.href.form = "rel" THEN Absolute(a.href) ELSE a.href
         IN  [links |-> Append(st.links, href), seen |-> st.seen \cup {href}]
    ELSE st

RECURSIVE LinkFold(_, _)
LinkFold(st, as) ==
    IF as = <<>> THEN st ELSE LinkFold(LinkBody(st, Head(as)), Tail(as))

collect_result_links_from_page(as) ==
    LinkFold([links |-> <<>>, seen |-> {}], as).links

(***************************************************************************)
(* get_html.  A response is a status code, or EXC for a transport          *)
(* exception raised by the request, and says whether it set a cookie (the  *)
(* session of the request keeps the cookies its responses set).  A session *)
(* is its User-Agent header and its cookies.  The state of a call is:      *)
(*   pc       the attempt that comes next ("a1", "a2", "a3") or "ret"      *)
(*   ret      "pending", "soup" (a parsed document) or "None"              *)
(*   exc      "none", "caught" (by the except clause of the call) or       *)
(*            "propagated" (raised to the caller)                          *)
(*   session  the session the caller passed in                             *)
(*   new      the session build_session() made, once it made one           *)
(*   rot      the identity chosen by the rotation, 0 before it             *)
(*   log      the requests made for the target URL so far: the session     *)
(*            each went through, the User-Agent it carried, its status     *)
(* The two warm-up requests of build_session go to other URLs and are not  *)
(* in the log.                                                             *)
(***************************************************************************)
EXC == 0

Statuses == {200, 403, 404, 500}

Responses == [status : Statuses \cup {EXC}, setcookie : BOOLEAN]

\* _UAS has four entries; _rand_ua() draws one of them.
UAs == 1..4

\* The sessions a call can be handed: warmed up, with or without a cookie
\* an earlier response set.
Sessions == [ua : UAs, cookies : {{"warm0"}, {"warm0", "srv"}}]

NoSession == [ua |-> 0, cookies |-> {}]

NewCall(session) ==
    [pc |-> "a1", ret |-> "pending", exc |-> "none", session |-> session,
     new |-> NoSession, rot |-> 0, log |-> <<>>]

\* session.get(...): the session keeps the cookies the response sets.
AfterGet(s, r) ==
    IF r.status # EXC /\ r.setcookie
    THEN [s EXCEPT !.cookies = @ \cup {"srv"}]
    ELSE s

Logged(c, via, s, r) ==
    Append(c.log, [via |-> via, ua |-> s.ua, status |-> r.status])

\* except Exception: print, return None (lines 179-181)
Caught(c) == [c EXCEPT !.pc = "ret", !.ret = "None", !.exc = "caught"]

\* return BeautifulSoup(r.text, "lxml"): the parser takes any text.
ReturnSoup(c) == [c EXCEPT !.pc = "ret", !.ret = "soup"]

ReturnNone(c) == [c EXCEPT !.pc = "ret", !.ret = "None"]

\* A variant of Attempt1 that retries without rotating the identity.
Attempt1_NoRotate(c, r, ua) ==
    LET c1 == [c EXCEPT !.log = Logged(c, "session", c.session, r),
                        !.session = AfterGet(c.session, r)]
    IN  IF r.status = EXC THEN Caught(c1)
        ELSE IF r.status = 200 THEN ReturnSoup(c1)
        ELSE IF r.status = 403 THEN [c1 EXCEPT !.rot = ua, !.pc = "a2"]
        ELSE ReturnNone(c1)

\* r = _fetch(url) and the branches on r.status_code, up to the rotation of
\* the identity; ua is what _rand_ua() draws.
Attempt1(c, r, ua) ==
    LET c1 == [c EXCEPT !.log = Logged(c, "session", c.session, r),
                        !.session = AfterGet(c.session, r)]
    IN  IF r.status = EXC THEN Caught(c1)
        ELSE IF r.status = 200 THEN ReturnSoup(c1)
        ELSE IF r.status = 403
             THEN [c1 EXCEPT !.session.ua = ua, !.rot = ua, !.pc = "a2"]
        ELSE ReturnNone(c1)

\* A variant of Attempt2 that gives up when the retry is not answered 200.
Attempt2_GiveUp(c, r) ==
    LET c1 == [c EXCEPT !.log = Logged(c, "session", c.session, r),
                        !.session = AfterGet(c.session, r)]
    IN  IF r.status = EXC THEN Caught(c1)
        ELSE IF r.status = 200 THEN ReturnSoup(c1)
        ELSE ReturnNone(c1)

\* r2 = _fetch(url): any status but 200 goes on to the rebuilt session.
Attempt2(c, r) ==
    LET c1 == [c EXCEPT !.log = Logged(c, "session", c.session, r),
                        !.session = AfterGet(c.session, r)]
    IN  IF r.status = EXC THEN Caught(c1)
        ELSE IF r.status = 200 THEN ReturnSoup(c1)
        ELSE [c1 EXCEPT !.pc = "a3"]

\* new_session = build_session(); r3 = new_session.get(url); on 200 the
\* caller's session takes the new session's cookies and headers.
Attempt3(c, r, ua) ==
    LET built == [ua |-> ua, cookies |-> {"warm1"}]
        new   == AfterGet(built, r)
        c1    == [c EXCEPT !.log = Logged(c, "new", built, r), !.new = new]
    IN  IF r.status = EXC THEN Caught(c1)
        ELSE IF r.status = 200
             THEN ReturnSoup([c1 EXCEPT !.session = new])
        ELSE ReturnNone(c1)

GetStep(c, r, ua) ==
    CASE c.pc = "a1" -> Attempt1(c, r, ua)
      [] c.pc = "a2" -> Attempt2(c, r)
      [] c.pc = "a3" -> Attempt3(c, r, ua)
      [] OTHER -> c

\* A whole call: rs[i] is the response the i-th request would get and
\* uas[i] what the i-th draw of _rand_ua() gives.
get_html(session, rs, uas) ==
    GetStep(GetStep(GetStep(NewCall(session), rs[1], uas[1]),
                    rs[2], uas[1]), rs[3], uas[2])

(***************************************************************************)
(* run().  The result index is a finite site: each page has the anchors of *)
(* its main region and the page its next link leads to (0: no next link).  *)
(* Page 1 is the search URL; page_url = 0 is no URL (None, or an empty     *)
(* search_url).  A file on disk is absent, whole (the rows a  *)
(* completed write left) or torn (a write was cut short).                  *)
(*                                                                         *)
(* Environment: a request returns (no request hangs); an interrupt or an   *)
(* unexpected error can land at any step of the try block, a write in      *)
(* progress included; the spreadsheet path can be locked at any write, the *)
(* final one included; the final flush is not itself interrupted and meets *)
(* no other fault.  The session is not followed across calls: the driver   *)
(* reads only whether get_html returned a document.                        *)
(***************************************************************************)
Pages == 1..NumPages

Link(form, d) == [href |-> [form |-> form, doc |-> d], title |-> TRUE]

\* The pages a site is built from: one without links, one with one link, one
\* whose first href comes twice before a second document's.
PageShapes ==
    { <<>>,
      <<Link("rel", 1)>>,
      <<Link("rel", 2), Link("rel", 2), Link("abs", 1)>> }

\* Page p is read by a crawl that nothing stops: every page before it has
\* links and leads to its successor.
Linked(s, p) ==
    \A q \in 1..(p - 1) : s[q].next = q + 1 /\ s[q].anchors # <<>>

\* A next link leads nowhere, on to the following page or back to page 1.
\* What no crawl reads is left empty: the next link of a page without links
\* (the loop ends there, line 359) and the pages that cannot be reached.
Sites ==
    { s \in [Pages -> [anchors : PageShapes, next : 0..NumPages]] :
        \A p \in Pages :
          /\ s[p].next \in {0, 1} \cup ({p + 1} \cap Pages)
          /\ s[p].anchors = <<>> => s[p].next = 0
          /\ ~Linked(s, p) => s[p] = [anchors |-> <<>>, next |-> 0] }

NoUrl == [form |-> "none", doc |-> 0]

Absent == [state |-> "absent", rows |-> <<>>]

Torn == [state |-> "torn", rows |-> <<>>]

Whole(rows) == [state |-> "whole", rows |-> rows]

RunSession == [ua |-> 1, cookies |-> {"warm0"}]

RunResponses ==
    {[status |-> s, setcookie |-> FALSE] : s \in {200, 403, 404, EXC}}

\* The calls of get_html the driver can meet, finished: one for each way the
\* requests of a call can be answered.
RunCalls ==
    {get_html(RunSession, rs, <<1, 1>>) : rs \in [1..3 -> RunResponses]}

\* The record of a document whose page could not be fetched.
EmptyRecord(url) ==
    [url |-> url, title |-> "", file_number |-> "", date |-> "",
     full_text |-> "", sections |-> {}]

\* The record of a fetched document (one sample document body).
FullRecord(url) ==
    [url |-> url, title |-> "Matter of X", file_number |-> "B-123456",
     date |-> "Jan 1, 2020", full_text |-> "DIGEST text",
     sections |-> {"DIGEST"}]

\* c is the finished call of get_html(session, url).
scrape_item_with_bs(url, c) ==
    IF c.ret = "None" THEN EmptyRecord(url) ELSE FullRecord(url)

\* A variant of upload_rows that keeps the newest record only.
upload_rows_LastOnly(recs) ==
    IF recs = <<>> THEN <<>> ELSE <<recs[Len(recs)]>>

\* The rows write_outputs builds: one per record, in order.
upload_rows(recs) == recs

get_next_page(p) == site[p].next

notRun == <<normVars, linkVars, getVars, splitVars, cleanVars, crawlVars>>

InLoop == pc \in {"while", "for", "scrape", "write", "fallback"}

\* Leaving the try block: the finally clause comes next.
Leave(why) ==
    /\ pc' = "finally"
    /\ how' = why
    /\ snap' = records

InitRun ==
    /\ pc = "while"
    /\ upto \in 0..MaxUpto
    /\ max_pages \in 0..MaxPagesArg
    /\ site \in Sites
    /\ page_url \in {0, 1}
    /\ page_num = 1
    /\ soup = 0
    /\ links = <<>>
    /\ li = 1
    /\ cur = NoUrl
    /\ records = <<>>
    /\ processed = 0
    /\ csv = Absent
    /\ xlsx = Absent
    /\ partial = Absent
    /\ how = "crawling"
    /\ pageFetches = 0
    /\ offered = 0
    /\ taken = <<>>
    /\ snap = <<>>
    /\ finalFlushes = 0

\* while page_url: the loop ends when there is no page left (lines 351, 382).
WhileExit ==
    /\ pc = "while"
    /\ page_url = 0
    /\ Leave("exhausted")
    /\ UNCHANGED <<upto, max_pages, site, page_url, page_num, soup, links, li,
                   cur, records, processed, csv, xlsx, partial, pageFetches,
                   offered, taken, finalFlushes>>
    /\ UNCHANGED notRun

\* soup = get_html(session, page_url); links = collect...(soup)
\* (lines 352-359).
FetchPage ==
    /\ pc = "while"
    /\ page_url # 0
    /\ \E c \in RunCalls :
         LET ls == collect_result_links_from_page(site[page_url].anchors)
         IN  /\ pageFetches' = pageFetches + 1
             /\ IF c.ret = "None"
                THEN /\ Leave("pagefail")
                     /\ UNCHANGED <<soup, links, li, offered>>
                ELSE /\ soup' = page_url
                     /\ links' = ls
                     /\ li' = 1
                     /\ offered' = offered + Len(ls)
                     /\ IF ls = <<>>
                        THEN Leave("nolinks")
                        ELSE /\ pc' = "for"
                             /\ UNCHANGED <<how, snap>>
    /\ UNCHANGED <<upto, max_pages, site, page_url, page_num, cur, records,
                   processed, csv, xlsx, partial, taken, finalFlushes>>
    /\ UNCHANGED notRun

\* A variant of ForNext whose budget test is off by one.
ForNext_OffByOne ==
    /\ pc = "for"
    /\ li <= Len(links)
    /\ IF upto # 0 /\ processed > upto
       THEN /\ Leave("budget")
            /\ UNCHANGED <<cur, taken>>
       ELSE /\ Len(records) < MaxRecords
            /\ cur' = links[li]
            /\ taken' = Append(taken, [url |-> links[li], ret |-> "pending"])
            /\ pc' = "scrape"
            /\ UNCHANGED <<how, snap>>
    /\ UNCHANGED <<upto, max_pages, site, page_url, page_num, soup, links, li,
                   records, processed, csv, xlsx, partial, pageFetches,
                   offered, finalFlushes>>
    /\ UNCHANGED notRun

\* for url in links: the budget test, then the call of scrape_item_with_bs
\* begins (lines 360-364).  taken gets the URL handed to the call.
ForNext ==
    /\ pc = "for"
    /\ li <= Len(links)
    /\ IF upto # 0 /\ processed >= upto
       THEN /\ Leave("budget")
            /\ UNCHANGED <<cur, taken>>
       ELSE /\ Len(records) < MaxRecords
            /\ cur' = links[li]
            /\ taken' = Append(taken, [url |-> links[li], ret |-> "pending"])
            /\ pc' = "scrape"
            /\ UNCHANGED <<how, snap>>
    /\ UNCHANGED <<upto, max_pages, site, page_url, page_num, soup, links, li,
                   records, processed, csv, xlsx, partial, pageFetches,
                   offered, finalFlushes>>
    /\ UNCHANGED notRun

\* rec = scrape_item_with_bs(session, url); records.append(rec);
\* processed += 1 (lines 364-366).
\* A variant of Scrape that keeps no record of a document whose fetch
\* failed and goes on to the next link.
Scrape_SkipFailed ==
    /\ pc = "scrape"
    /\ \E c \in RunCalls :
             /\ taken' = [taken EXCEPT ![Len(taken)].ret = c.ret]
             /\ IF c.ret = "None"
                THEN /\ UNCHANGED <<records, processed>>
                     /\ li' = li + 1
                     /\ pc' = "for"
                ELSE /\ records' = Append(records, scrape_item_with_bs(cur, c))
                     /\ processed' = processed + 1
                     /\ li' = li
                     /\ pc' = "write"
    /\ cur' = NoUrl
    /\ UNCHANGED <<upto, max_pages, site, page_url, page_num, soup, links,
                   csv, xlsx, partial, how, pageFetches, offered, snap,
                   finalFlushes>>
    /\ UNCHANGED notRun

Scrape ==
    /\ pc = "scrape"
    /\ \E c \in RunCalls :
             /\ records' = Append(records, scrape_item_with_bs(cur, c))
             /\ taken' = [taken EXCEPT ![Len(taken)].ret = c.ret]
    /\ processed' = processed + 1
    /\ cur' = NoUrl
    /\ pc' = "write"
    /\ UNCHANGED <<upto, max_pages, site, page_url, page_num, soup, links, li,
                   csv, xlsx, partial, how, pageFetches, offered, snap,
                   finalFlushes>>
    /\ UNCHANGED notRun

\* write_outputs(records, out_csv, out_xlsx) runs to its end, then
\* human_sleep() (lines 368, 373).
WriteOk ==
    /\ pc = "write"
    /\ csv' = Whole(upload_rows(records))
    /\ xlsx' = Whole(upload_rows(records))
    /\ li' = li + 1
    /\ pc' = "for"
    /\ UNCHANGED <<upto, max_pages, site, page_url, page_num, soup, links,
                   cur, records, processed, partial, how, pageFetches,
                   offered, taken, snap, finalFlushes>>
    /\ UNCHANGED notRun

\* write_outputs wrote the CSV and met the locked spreadsheet:
\* PermissionError (lines 283, 318, 369).
WriteLocked ==
    /\ pc = "write"
    /\ csv' = Whole(upload_rows(records))
    /\ pc' = "fallback"
    /\ UNCHANGED <<upto, max_pages, site, page_url, page_num, soup, links, li,
                   cur, records, processed, xlsx, partial, how, pageFetches,
                   offered, taken, snap, finalFlushes>>
    /\ UNCHANGED notRun

\* A variant of WriteFallback that goes on without writing the sibling file.
WriteFallback_NoWrite ==
    /\ pc = "fallback"
    /\ li' = li + 1
    /\ pc' = "for"
    /\ UNCHANGED <<upto, max_pages, site, page_url, page_num, soup, links,
                   cur, records, processed, csv, xlsx, partial, how,
                   pageFetches, offered, taken, snap, finalFlushes>>
    /\ UNCHANGED notRun

\* write_outputs(records, out_csv, f"{base}_partial{ext}") (lines 371-373).
WriteFallback ==
    /\ pc = "fallback"
    /\ csv' = Whole(upload_rows(records))
    /\ partial' = Whole(upload_rows(records))
    /\ li' = li + 1
    /\ pc' = "for"
    /\ UNCHANGED <<upto, max_pages, site, page_url, page_num, soup, links,
                   cur, records, processed, xlsx, how, pageFetches, offered,
                   taken, snap, finalFlushes>>
    /\ UNCHANGED notRun

\* A variant of PageEnd that tests the page budget before it counts the
\* page.
PageEnd_TestFirst ==
    /\ pc = "for"
    /\ li > Len(links)
    /\ page_num' = page_num + 1
    /\ IF max_pages # 0 /\ page_num > max_pages
       THEN /\ Leave("pagebudget")
            /\ UNCHANGED page_url
       ELSE IF get_next_page(soup) = 0
       THEN /\ Leave("nonext")
            /\ UNCHANGED page_url
       ELSE /\ page_url' = get_next_page(soup)
            /\ pc' = "while"
            /\ UNCHANGED <<how, snap>>
    /\ UNCHANGED <<upto, max_pages, site, soup, links, li, cur, records,
                   processed, csv, xlsx, partial, pageFetches, offered, taken,
                   finalFlushes>>
    /\ UNCHANGED notRun

\* The links of the page are used up: page_num += 1, the page budget, the
\* next link (lines 374-381).
PageEnd ==
    /\ pc = "for"
    /\ li > Len(links)
    /\ page_num' = page_num + 1
    /\ IF max_pages # 0 /\ page_num + 1 > max_pages
       THEN /\ Leave("pagebudget")
            /\ UNCHANGED page_url
       ELSE IF get_next_page(soup) = 0
       THEN /\ Leave("nonext")
            /\ UNCHANGED page_url
       ELSE /\ page_url' = get_next_page(soup)
            /\ pc' = "while"
            /\ UNCHANGED <<how, snap>>
    /\ UNCHANGED <<upto, max_pages, site, soup, links, li, cur, records,
                   processed, csv, xlsx, partial, pageFetches, offered, taken,
                   finalFlushes>>
    /\ UNCHANGED notRun

\* What a write cut short leaves: the CSV is written first, then the
\* spreadsheet at path `second`.
CutShort(second) ==
    \/ /\ csv' = csv /\ second' = second
    \/ /\ csv' = Torn /\ second' = second
    \/ /\ csv' = Whole(upload_rows(records)) /\ second' = Torn

\* The statement an exception is raised in is abandoned where it stands.
Abandon ==
    /\ CASE pc = "write"    -> CutShort(xlsx) /\ UNCHANGED partial
         [] pc = "fallback" -> CutShort(partial) /\ UNCHANGED xlsx
         [] OTHER           -> UNCHANGED <<csv, xlsx, partial>>
    /\ UNCHANGED <<upto, max_pages, site, page_url, page_num, soup, links, li,
                   cur, records, processed, pageFetches, offered, taken,
                   finalFlushes>>
    /\ UNCHANGED notRun

\* A variant of Interrupt that leaves run() without the finally clause.
Interrupt_Uncaught ==
    /\ InLoop
    /\ pc' = "done"
    /\ how' = "interrupt"
    /\ snap' = records
    /\ Abandon

\* except KeyboardInterrupt (lines 384-385)
Interrupt ==
    /\ InLoop
    /\ Leave("interrupt")
    /\ Abandon

\* A variant of UnexpectedError that lets the exception leave run().
UnexpectedError_Uncaught ==
    /\ InLoop
    /\ pc' = "raised"
    /\ how' = "error"
    /\ snap' = records
    /\ Abandon

\* except Exception (lines 386-387)
UnexpectedError ==
    /\ InLoop
    /\ Leave("error")
    /\ Abandon

\* A variant of FinalFlush that writes nothing when the CSV already holds
\* every record.
FinalFlush_SkipIfClean ==
    /\ pc = "finally"
    /\ IF csv = Whole(upload_rows(records))
       THEN /\ pc' = "done"
            /\ UNCHANGED <<finalFlushes, csv, xlsx>>
       ELSE /\ finalFlushes' = finalFlushes + 1
            /\ csv' = Whole(upload_rows(records))
            /\ \/ /\ xlsx' = Whole(upload_rows(records))
                  /\ pc' = "done"
               \/ /\ xlsx' = xlsx
                  /\ pc' = "finalfallback"
    /\ UNCHANGED <<upto, max_pages, site, page_url, page_num, soup, links, li,
                   cur, records, processed, partial, how, pageFetches,
                   offered, taken, snap>>
    /\ UNCHANGED notRun

\* finally: write_outputs(records, out_csv, out_xlsx) (lines 388-390).
FinalFlush ==
    /\ pc = "finally"
    /\ finalFlushes' = finalFlushes + 1
    /\ csv' = Whole(upload_rows(records))
    /\ \/ /\ xlsx' = Whole(upload_rows(records))
          /\ pc' = "done"
       \/ /\ xlsx' = xlsx
          /\ pc' = "finalfallback"
    /\ UNCHANGED <<upto, max_pages, site, page_url, page_num, soup, links, li,
                   cur, records, processed, partial, how, pageFetches,
                   offered, taken, snap>>
    /\ UNCHANGED notRun

\* except PermissionError in the finally clause (lines 391-394).
FinalFallback ==
    /\ pc = "finalfallback"
    /\ csv' = Whole(upload_rows(records))
    /\ partial' = Whole(upload_rows(records))
    /\ pc' = "done"
    /\ UNCHANGED <<upto, max_pages, site, page_url, page_num, soup, links, li,
                   cur, records, processed, xlsx, how, pageFetches, offered,
                   taken, snap, finalFlushes>>
    /\ UNCHANGED notRun

(***************************************************************************)
(* The other specifications' variables at rest.                            *)
(***************************************************************************)
IdleNorm ==
    /\ n_pc = "idle" /\ n_in = <<>> /\ n_once = <<>> /\ n_twice = <<>>

IdleLinks ==
    /\ l_pc = "idle" /\ l_anchors = <<>> /\ l_i = 1
    /\ l_links = <<>> /\ l_seen = {}

IdleGet ==
    /\ g = [NewCall(RunSession) EXCEPT !.pc = "idle"]
    /\ g_session0 = RunSession

IdleRun ==
    /\ pc = "idle" /\ upto = 0 /\ max_pages = 0
    /\ site = [p \in Pages |-> [anchors |-> <<>>, next |-> 0]]
    /\ page_url = 0 /\ page_num = 1 /\ soup = 0 /\ links = <<>> /\ li = 1
    /\ cur = NoUrl /\ records = <<>> /\ processed = 0
    /\ csv = Absent /\ xlsx = Absent /\ partial = Absent
    /\ how = "idle" /\ pageFetches = 0 /\ offered = 0 /\ taken = <<>>
    /\ snap = <<>> /\ finalFlushes = 0

IdleSplit ==
    /\ s_pc = "idle" /\ s_in = <<>> /\ s_ft = <<>> /\ s_out = <<>>

IdleClean ==
    /\ c_pc = "idle" /\ c_in = <<>> /\ c_out = <<>> /\ c_sections = <<>>

IdleCrawl ==
    /\ k_pc = "idle"
    /\ k_site = [p \in Pages |-> [anchors |-> <<>>, next |-> 0]]
    /\ k_page_url = 0 /\ k_soup = 0 /\ k_links = <<>> /\ k_li = 1

IdleRest == IdleSplit /\ IdleClean /\ IdleCrawl

Init == InitRun /\ IdleNorm /\ IdleLinks /\ IdleGet /\ IdleRest

Next ==
    \/ WhileExit
    \/ FetchPage
    \/ ForNext
    \/ Scrape
    \/ WriteOk
    \/ WriteLocked
    \/ WriteFallback
    \/ PageEnd
    \/ Interrupt
    \/ UnexpectedError
    \/ FinalFlush
    \/ FinalFallback

Spec == Init /\ [][Next]_vars

(***************************************************************************)
(* normalize_text applied to a text, and again to its result.              *)
(***************************************************************************)
notNorm == <<linkVars, getVars, runVars, splitVars, cleanVars, crawlVars>>

InitNorm ==
    /\ n_pc = "start"
    /\ n_in \in Texts
    /\ n_once = <<>>
    /\ n_twice = <<>>

NormOnce ==
    /\ n_pc = "start"
    /\ n_once' = normalize_text(n_in)
    /\ n_pc' = "once"
    /\ UNCHANGED <<n_in, n_twice>>
    /\ UNCHANGED notNorm

NormTwice ==
    /\ n_pc = "once"
    /\ n_twice' = normalize_text(n_once)
    /\ n_pc' = "twice"
    /\ UNCHANGED <<n_in, n_once>>
    /\ UNCHANGED notNorm

NextNorm == NormOnce \/ NormTwice

NormInit == InitNorm /\ IdleLinks /\ IdleGet /\ IdleRun /\ IdleRest

SpecNorm == NormInit /\ [][NextNorm]_vars

(***************************************************************************)
(* collect_result_links_from_page over the anchors of one page, one anchor *)
(* per step.                                                               *)
(***************************************************************************)
notLinks == <<normVars, getVars, runVars, splitVars, cleanVars, crawlVars>>

InitLinks ==
    /\ l_pc = "loop"
    /\ l_anchors \in AnchorLists
    /\ l_i = 1
    /\ l_links = <<>>
    /\ l_seen = {}

\* for a in main.select(...): the loop body (lines 187-194)
LinkStep ==
    /\ l_pc = "loop"
    /\ l_i <= Len(l_anchors)
    /\ LET st == LinkBody([links |-> l_links, seen |-> l_seen], l_anchors[l_i])
       IN  /\ l_links' = st.links
           /\ l_seen' = st.seen
    /\ l_i' = l_i + 1
    /\ UNCHANGED <<l_pc, l_anchors>>
    /\ UNCHANGED notLinks

\* return links (line 195)
LinkReturn ==
    /\ l_pc = "loop"
    /\ l_i > Len(l_anchors)
    /\ l_pc' = "ret"
    /\ UNCHANGED <<l_anchors, l_i, l_links, l_seen>>
    /\ UNCHANGED notLinks

NextLinks == LinkStep \/ LinkReturn

LinksInit == InitLinks /\ IdleNorm /\ IdleGet /\ IdleRun /\ IdleRest

SpecLinks == LinksInit /\ [][NextLinks]_vars

(***************************************************************************)
(* One call of get_html, one request per step.                             *)
(***************************************************************************)
notGet == <<normVars, linkVars, runVars, splitVars, cleanVars, crawlVars>>

InitGet ==
    /\ g_session0 \in Sessions
    /\ g = NewCall(g_session0)

GetAttempt1 ==
    /\ g.pc = "a1"
    /\ \E r \in Responses, ua \in UAs : g' = Attempt1(g, r, ua)
    /\ UNCHANGED g_session0
    /\ UNCHANGED notGet

GetAttempt2 ==
    /\ g.pc = "a2"
    /\ \E r \in Responses : g' = Attempt2(g, r)
    /\ UNCHANGED g_session0
    /\ UNCHANGED notGet

GetAttempt3 ==
    /\ g.pc = "a3"
    /\ \E r \in Responses, ua \in UAs : g' = Attempt3(g, r, ua)
    /\ UNCHANGED g_session0
    /\ UNCHANGED notGet

NextGet == GetAttempt1 \/ GetAttempt2 \/ GetAttempt3

GetInit == InitGet /\ IdleNorm /\ IdleLinks /\ IdleRun /\ IdleRest

SpecGet == GetInit /\ [][NextGet]_vars

(***************************************************************************)
(* SpecSplit: split_sections on a text of at most MaxLines lines, each     *)
(* line one of SplitLines.                                                 *)
(***************************************************************************)
notSplit == <<normVars, linkVars, getVars, runVars, cleanVars, crawlVars>>

\* A line of n capital letters.
Caps(n) == [i \in 1..n |-> "A"]

SplitLines ==
    { <<>>, <<"x">>, KNOWN_ORDER[1], KNOWN_ORDER[4],
      <<"A", "B", "C", "D">>, <<"A", "B", "C">>,
      Caps(CapsMax), Caps(CapsMax + 1), Caps(CapsMax + 2) }

LinesOver(L, n) == UNION {[1..m -> L] : m \in 0..n}

SplitTexts == {JoinLines(ls) : ls \in LinesOver(SplitLines, MaxLines)}

InitSplit ==
    /\ s_pc = "start"
    /\ s_in \in SplitTexts
    /\ s_ft = <<>>
    /\ s_out = <<>>

\* ft = normalize_text(full_text); if not ft: return {} (lines 80-82)
SplitNormalize ==
    /\ s_pc = "start"
    /\ s_ft' = normalize_text(s_in)
    /\ s_out' = <<>>
    /\ s_pc' = IF normalize_text(s_in) = <<>> THEN "done" ELSE "find"
    /\ UNCHANGED s_in
    /\ UNCHANGED notSplit

\* found_positions is built; if not found_positions: return {...}
\* (lines 83-93)
SplitFind ==
    /\ s_pc = "find"
    /\ IF found_positions(s_ft) = <<>>
       THEN /\ s_out' = Fallback(s_in, s_ft)
            /\ s_pc' = "done"
       ELSE /\ s_out' = s_out
            /\ s_pc' = "marks"
    /\ UNCHANGED <<s_in, s_ft>>
    /\ UNCHANGED notSplit

\* ordered, rx, marks, out; return out (lines 94-101)
SplitMarks ==
    /\ s_pc = "marks"
    /\ s_out' = Bodies(s_ft, marks(s_ft), 1, <<>>)
    /\ s_pc' = "done"
    /\ UNCHANGED <<s_in, s_ft>>
    /\ UNCHANGED notSplit

NextSplit == SplitNormalize \/ SplitFind \/ SplitMarks

SplitInit ==
    InitSplit /\ IdleNorm /\ IdleLinks /\ IdleGet /\ IdleRun /\ IdleClean
    /\ IdleCrawl

SpecSplit == SplitInit /\ [][NextSplit]_vars

(***************************************************************************)
(* SpecClean: clean_report_text on a text of at most MaxLines lines, each  *)
(* one of CleanLines, then split_sections on what it returns, as           *)
(* scrape_item_with_bs calls them.                                         *)
(***************************************************************************)
notClean == <<normVars, linkVars, getVars, runVars, splitVars, crawlVars>>

CleanLines ==
    { <<>>, <<"x">>,
      <<"P", "a", "g", "e", " ", "4">>,
      <<" ", "P", "a", "g", "e", " ", "4">>,
      <<"B", "-", "1", "2", "3", "4">>,
      <<" ", "B", "-", "1", "2", "3", "4">>,
      <<"B", "-", "1", "2", "-">>, <<"3", "4">>,
      KNOWN_ORDER[3], <<"A", "B", "C", "D">> }

CleanTexts == {JoinLines(ls) : ls \in LinesOver(CleanLines, MaxLines)}

InitClean ==
    /\ c_pc = "start"
    /\ c_in \in CleanTexts
    /\ c_out = <<>>
    /\ c_sections = <<>>

\* cleaned = clean_report_text(raw) (lines 46-65, 251)
CleanCall ==
    /\ c_pc = "start"
    /\ c_out' = clean_report_text(c_in)
    /\ c_pc' = "cleaned"
    /\ UNCHANGED <<c_in, c_sections>>
    /\ UNCHANGED notClean

\* sections = split_sections(cleaned) (line 252)
SegmentCleaned ==
    /\ c_pc = "cleaned"
    /\ c_sections' = split_sections(c_out)
    /\ c_pc' = "done"
    /\ UNCHANGED <<c_in, c_out>>
    /\ UNCHANGED notClean

NextClean == CleanCall \/ SegmentCleaned

CleanInit ==
    InitClean /\ IdleNorm /\ IdleLinks /\ IdleGet /\ IdleRun /\ IdleSplit
    /\ IdleCrawl

SpecClean == CleanInit /\ [][NextClean]_vars

(***************************************************************************)
(* SpecCrawl: the loop of run() called with upto = 0 and max_pages = 0,    *)
(* on any site of NumPages index pages, whatever page a next link names.   *)
(* With no budget set no test of the loop reads the records, processed or  *)
(* page_num, so they are left out and a run that visits a page again is    *)
(* back in a state it was in.  No interrupt and no error is raised, every  *)
(* request returns, and every step that can be taken is taken in the end   *)
(* (weak fairness of the next-state relation).                             *)
(***************************************************************************)
notCrawl == <<normVars, linkVars, getVars, runVars, splitVars, cleanVars>>

CrawlSites == [Pages -> [anchors : PageShapes, next : 0..NumPages]]

InitCrawl ==
    /\ k_pc = "while"
    /\ k_site \in CrawlSites
    /\ k_page_url \in {0, 1}
    /\ k_soup = 0
    /\ k_links = <<>>
    /\ k_li = 1

\* while page_url: (line 351) with nothing to fetch
CrawlWhileExit ==
    /\ k_pc = "while"
    /\ k_page_url = 0
    /\ k_pc' = "finally"
    /\ UNCHANGED <<k_site, k_page_url, k_soup, k_links, k_li>>
    /\ UNCHANGED notCrawl

\* soup = get_html(session, page_url); links = collect...(soup)
\* (lines 352-359)
CrawlFetch ==
    /\ k_pc = "while"
    /\ k_page_url # 0
    /\ \E c \in RunCalls :
         LET ls == collect_result_links_from_page(k_site[k_page_url].anchors)
         IN  IF c.ret = "None"
             THEN /\ k_pc' = "finally"
                  /\ UNCHANGED <<k_soup, k_links, k_li>>
             ELSE /\ k_soup' = k_page_url
                  /\ k_links' = ls
                  /\ k_li' = 1
                  /\ k_pc' = IF ls = <<>> THEN "finally" ELSE "for"
    /\ UNCHANGED <<k_site, k_page_url>>
    /\ UNCHANGED notCrawl

\* One pass of the for loop: upto is 0, so the budget test lets it through;
\* the document is scraped, its record appended and written (lines 360-373).
CrawlItem ==
    /\ k_pc = "for"
    /\ k_li <= Len(k_links)
    /\ k_li' = k_li + 1
    /\ UNCHANGED <<k_pc, k_site, k_page_url, k_soup, k_links>>
    /\ UNCHANGED notCrawl

\* The links of the page are used up: max_pages is 0, so the page budget
\* lets it through; the next link decides (lines 374-381).
CrawlPageEnd ==
    /\ k_pc = "for"
    /\ k_li > Len(k_links)
    /\ IF k_site[k_soup].next = 0
       THEN /\ k_pc' = "finally"
            /\ UNCHANGED k_page_url
       ELSE /\ k_page_url' = k_site[k_soup].next
            /\ k_pc' = "while"
    /\ UNCHANGED <<k_site, k_soup, k_links, k_li>>
    /\ UNCHANGED notCrawl

\* finally: the final flush, and run() returns (lines 388-394).
CrawlFlush ==
    /\ k_pc = "finally"
    /\ k_pc' = "done"
    /\ UNCHANGED <<k_site, k_page_url, k_soup, k_links, k_li>>
    /\ UNCHANGED notCrawl

NextCrawl ==
    \/ CrawlWhileExit
    \/ CrawlFetch
    \/ CrawlItem
    \/ CrawlPageEnd
    \/ CrawlFlush

CrawlInit ==
    InitCrawl /\ IdleNorm /\ IdleLinks /\ IdleGet /\ IdleRun /\ IdleSplit
    /\ IdleClean

SpecCrawl == CrawlInit /\ [][NextCrawl]_vars /\ WF_vars(NextCrawl)

(***************************************************************************)
(* Properties of run(), checked under Spec.                                *)
(***************************************************************************)
RecUrls == [i \in 1..Len(records) |-> records[i].url]

TakenUrls == [i \in 1..Len(taken) |-> taken[i].url]

\* Both outputs hold exactly the rows of recs: the CSV, and the spreadsheet
\* or its _partial sibling.
OnDisk(recs) ==
    /\ csv = Whole(recs)
    /\ xlsx = Whole(recs) \/ partial = Whole(recs)

\* The loop stands between two statements, every flush it began completed.
Flushed == pc \in {"while", "for", "scrape"}

\* C1: the record list holds one record per document URL handed to
\* scrape_item_with_bs, in discovery order, the only URL without a record
\* being the one whose call has not returned (in flight, or abandoned by an
\* interrupt or an error); a URL whose fetch failed has the record with the
\* empty fields, and that record is on disk once its flush is over like any
\* other.
C1_Completeness ==
    /\ RecUrls = (IF cur # NoUrl THEN SubSeq(TakenUrls, 1, Len(taken) - 1)
                                ELSE TakenUrls)
    /\ cur # NoUrl => Len(taken) >= 1 /\ taken[Len(taken)].ret = "pending"
    /\ \A i \in 1..Len(records) :
         /\ taken[i].ret = "None" => records[i] = EmptyRecord(taken[i].url)
         /\ taken[i].ret = "soup" => records[i] = FullRecord(taken[i].url)
         /\ taken[i].ret # "pending"
    /\ Flushed /\ records # <<>> => OnDisk(records)

\* A failed fetch, followed by a fetched document, both with their records
\* on disk.
C1_Witness ==
    /\ pc = "for"
    /\ Len(records) = 2
    /\ taken[1].ret = "None" /\ records[1] = EmptyRecord(taken[1].url)
    /\ taken[2].ret = "soup"
    /\ OnDisk(records)

\* The links of the pages the index offers: those of the pages linked from
\* page 1, up to the first page without links.
RECURSIVE LinksFrom(_)
LinksFrom(p) ==
    LET n == Len(collect_result_links_from_page(site[p].anchors))
    IN  IF n = 0 THEN 0
        ELSE IF site[p].next = p + 1 /\ p + 1 \in Pages
             THEN n + LinksFrom(p + 1)
             ELSE n

BudgetSafety ==
    upto > 0 =>
      /\ Len(records) <= upto
      /\ pc = "scrape" => Len(records) < upto
      /\ Len(taken) <= upto

\* C2 as claimed: with upto = N > 0 the records never exceed N, no document
\* is fetched once N records exist, and a run that no fault cut short ends
\* with exactly N records when the index offers at least N links across its
\* pages.
C2_Original ==
    /\ BudgetSafety
    /\ ( /\ upto > 0
         /\ pc = "done"
         /\ how \in {"budget", "pagebudget", "nonext", "nolinks"}
         /\ LinksFrom(1) >= upto )
       => Len(records) = upto

\* C2 as amended: with upto = N > 0 the records never exceed N, no document
\* is fetched once N records exist, and a run that neither an interrupt nor
\* an unexpected error ended has exactly N records when the index pages it
\* fetched offer at least N links in total (and all the links they offer
\* otherwise).
C2_Budget ==
    /\ BudgetSafety
    /\ (upto > 0 /\ pc = "done" /\ how \notin {"interrupt", "error"})
       => /\ offered >= upto => Len(records) = upto
          /\ offered < upto => Len(records) = offered
          /\ how = "budget" => Len(records) = upto

\* The budget met in the middle of a page: links are left, a next page too.
C2_Witness ==
    /\ pc = "done"
    /\ how = "budget"
    /\ upto = 2
    /\ Len(records) = 2
    /\ Len(taken) = 2
    /\ li <= Len(links)
    /\ offered > 2

C4_Interrupt ==
    how = "interrupt" =>
      /\ pc \in {"finally", "finalfallback", "done"}
      /\ records = snap
      /\ Len(taken) - Len(records) \in {0, 1}
      /\ pc = "done" => OnDisk(snap)

\* The interrupt came while the third document was being fetched.
C4_Witness ==
    /\ how = "interrupt"
    /\ pc = "done"
    /\ Len(records) = 2
    /\ cur # NoUrl
    /\ Len(taken) = 3
    /\ OnDisk(records)

\* The interrupt came while a per-record flush was being written.
C4_WitnessInFlush ==
    /\ how = "interrupt"
    /\ pc = "finally"
    /\ csv = Torn
    /\ Len(records) = 2

\* The state part of C5: whenever a document fetch is about to begin or is
\* under way, and at every loop head, the outputs hold all the records.
C5_Invariant == Flushed /\ records # <<>> => OnDisk(records)

\* The step part of C5: records are only ever appended, and a completed
\* write never leaves fewer rows than the completed write before it.
C5_Step ==
    /\ Len(records') >= Len(records)
    /\ SubSeq(records', 1, Len(records)) = records
    /\ (csv.state = "whole" /\ csv'.state = "whole")
         => Len(csv'.rows) >= Len(csv.rows)

\* C5: after each record is appended and before the next document is
\* fetched both outputs are rewritten from the whole record list, so that
\* between two document fetches the rows on disk are the records gathered
\* so far, and the row count on disk never decreases.
C5_PerRecordFlush == [](C5_Invariant) /\ [][C5_Step]_vars

\* The second document's record is on disk while the third is fetched.
C5_Witness ==
    /\ pc = "scrape"
    /\ Len(records) = 2
    /\ csv = Whole(records)
    /\ xlsx = Whole(records)

C14_PageBudget ==
    /\ max_pages # 0 => pageFetches <= max_pages
    /\ how = "pagebudget" => max_pages # 0 /\ pageFetches = max_pages
    /\ how = "nonext" => get_next_page(soup) = 0

\* The page budget ended the run after its second page, which has a next
\* link.
C14_Witness ==
    /\ how = "pagebudget"
    /\ max_pages = 2
    /\ pageFetches = 2
    /\ soup = 2
    /\ get_next_page(soup) # 0

\* Without a page budget the run fetched more pages than any budget of the
\* model allows.
C14_WitnessUnbounded ==
    /\ max_pages = 0
    /\ pageFetches > MaxPagesArg

\* The state part of C15: while the sibling file is about to be written
\* the CSV already holds every record, and a sibling file that was written
\* whole holds the records gathered by then.
C15_Invariant ==
    /\ pc \in {"fallback", "finalfallback"} => csv = Whole(records)
    /\ pc = "fallback" => how = "crawling"
    /\ partial.state = "whole" =>
         /\ Len(partial.rows) <= Len(records)
         /\ partial.rows = SubSeq(records, 1, Len(partial.rows))

\* The step part of C15: the step after a locked spreadsheet writes the
\* whole record list to the sibling file and loses no record; after a
\* per-record flush the loop goes on with the next link, after the final
\* flush run() ends.
C15_Step ==
    /\ (pc = "fallback" /\ pc' # "finally") =>
         /\ partial' = Whole(records)
         /\ csv' = Whole(records)
         /\ records' = records
         /\ pc' = "for" /\ li' = li + 1
    /\ pc = "finalfallback" =>
         /\ partial' = Whole(records)
         /\ csv' = Whole(records)
         /\ records' = records
         /\ pc' = "done"

\* C15: when a flush, per-record or final, meets the locked spreadsheet,
\* the same full record set goes to the "_partial" sibling, no record is
\* lost, and after a per-record flush the crawl goes on.
C15_Contention == [](C15_Invariant) /\ [][C15_Step]_vars

\* The second record went to the sibling file because the spreadsheet was
\* locked, and the third document is being fetched.
C15_Witness ==
    /\ pc = "scrape"
    /\ Len(records) = 2
    /\ partial = Whole(records)
    /\ xlsx = Whole(<<records[1]>>)
    /\ csv = Whole(records)

\* C19: once the records number upto = N > 0 no request is made before the
\* final flush: no document is being fetched, no index page has just been
\* fetched (its first link still to come), and no index page fetch ended
\* the run, with N records in hand.
C19_StopAtCap ==
    upto # 0 =>
      /\ pc = "scrape" => processed < upto
      /\ (pc = "for" /\ li = 1) => processed < upto
      /\ how \in {"pagefail", "nolinks"} => Len(snap) < upto

(***************************************************************************)
(* Properties of get_html, checked under SpecGet.                          *)
(***************************************************************************)
NumRequests == Len(g.log)

\* C6: a call makes at most three requests for the URL; after a first 403
\* the second request goes through the same session with the identity
\* _rand_ua() drew; after a second 403 the third goes through a new
\* session; the call returns the document as soon as a request is answered
\* 200; when no request is answered 200 it returns None, and no exception
\* leaves the call.
C6_Escalation ==
    LET n == NumRequests
    IN  /\ n <= 3
        /\ \A i \in 1..(n - 1) : g.log[i].status # 200
        /\ (n >= 1 /\ g.log[n].status = 200) => g.pc = "ret" /\ g.ret = "soup"
        /\ g.ret = "soup" => n >= 1 /\ g.log[n].status = 200
        /\ (n >= 1 /\ g.log[1].status = 403) =>
             \/ g.pc = "a2" /\ n = 1
             \/ /\ n >= 2
                /\ g.log[2].via = "session"
                /\ g.rot \in UAs
                /\ g.log[2].ua = g.rot
        /\ (n >= 2 /\ g.log[2].status = 403) =>
             \/ g.pc = "a3" /\ n = 2
             \/ n = 3 /\ g.log[3].via = "new" /\ g.pc = "ret"
        /\ (g.pc = "ret" /\ g.log[n].status # 200) => g.ret = "None"
        /\ g.pc = "ret" => n >= 1
        /\ g.exc # "propagated"

\* Three requests, each answered 403: None, and nothing raised.
C6_Witness ==
    /\ g.pc = "ret"
    /\ NumRequests = 3
    /\ \A i \in 1..3 : g.log[i].status = 403
    /\ g.log[2].via = "session"
    /\ g.log[3].via = "new"
    /\ g.ret = "None"
    /\ g.exc = "none"

\* C7 as claimed: a request answered by a status other than 200 and 403, or
\* ended by a transport exception, is the last request of the call,
\* whichever attempt it is, and the call returns None.
C7_NonRetryable ==
    \A i \in 1..NumRequests :
        g.log[i].status \notin {200, 403} =>
            /\ NumRequests = i
            /\ g.pc = "ret"
            /\ g.ret = "None"

\* The caller's session is as it was before the call, but for the cookies
\* the responses to its own requests set.
SessionKept ==
    /\ g.session.ua = g_session0.ua
    /\ g_session0.cookies \subseteq g.session.cookies
    /\ g.session.cookies \subseteq g_session0.cookies \cup {"srv"}

Adopted == NumRequests = 3 /\ g.log[3].status = 200

Recovered == g.ret = "soup" /\ NumRequests >= 2

\* C8 as claimed: a call that returns without a successful recovery (its
\* first request answered 200, or the call returning None) leaves the
\* caller's session as it was, and after a successful request through the
\* rebuilt session the caller's session is the new session's.
C8_Original ==
    g.pc = "ret" =>
      /\ ~Recovered => SessionKept
      /\ Adopted => g.session = g.new

\* C8 as amended: the User-Agent of the caller's session is replaced by a
\* newly drawn identity as soon as the first request is answered 403,
\* whether or not a retry succeeds afterwards; the cookies and headers of
\* the caller's session are replaced by the new session's exactly when the
\* request through the rebuilt session is answered 200; a call whose first
\* request is not answered 403 leaves the session as it was.
C8_SessionEffect ==
    /\ NumRequests >= 1 /\ g.log[1].status # 403 => SessionKept
    /\ (NumRequests >= 1 /\ g.log[1].status = 403 /\ ~Adopted) =>
         /\ g.rot \in UAs
         /\ g.session.ua = g.rot
         /\ g_session0.cookies \subseteq g.session.cookies
         /\ g.session.cookies \subseteq g_session0.cookies \cup {"srv"}
    /\ Adopted =>
         /\ g.session = g.new
         /\ g.session.ua = g.log[3].ua
         /\ "warm1" \in g.session.cookies
         /\ "warm0" \notin g.session.cookies
    /\ NumRequests = 0 => g.session = g_session0

\* The call returned None after three requests and left the caller's
\* session with another User-Agent than it came with.
C8_Witness ==
    /\ g.pc = "ret"
    /\ g.ret = "None"
    /\ NumRequests = 3
    /\ g.session.ua # g_session0.ua
    /\ g.session.ua = g.rot

(***************************************************************************)
(* Property of collect_result_links_from_page, checked under SpecLinks.    *)
(***************************************************************************)
\* C9 as claimed: the returned list holds every absolute document URL at
\* most once, whatever relative and absolute hrefs the anchors carry and
\* however often an href comes.
C9_NoDuplicates ==
    l_pc = "ret" =>
      \A i, j \in 1..Len(l_links) : l_links[i] = l_links[j] => i = j

(***************************************************************************)
(* Property of normalize_text, checked under SpecNorm.                     *)
(***************************************************************************)
\* C10 as claimed: normalizing a normalized text changes nothing.
C10_Idempotent == n_pc = "twice" => n_twice = n_once

(***************************************************************************)
(* Properties of split_sections, checked under SpecSplit.  The lines of a  *)
(* text are read off the text itself, one line at a time.                  *)
(***************************************************************************)
LineStarts(t) == {i \in 1..Len(t) : AtLineStart(t, i)}

\* The position after the line that starts at i.
LineEndOf(t, i) == Min({j \in i..(Len(t) + 1) : AtLineEnd(t, j)})

LineOf(t, i) == SubSeq(t, i, LineEndOf(t, i) - 1)

KnownNames == {KNOWN_ORDER[k] : k \in 1..Len(KNOWN_ORDER)}

\* A line of lo to hi characters, all of them capitals, digits, blanks or the
\* punctuation of a generic heading, the first a capital or a digit.
IsCapsLine(l, lo, hi) ==
    /\ Len(l) \in lo..hi
    /\ CapFirst(l[1])
    /\ \A k \in 1..Len(l) : CapRest(l[k]) /\ l[k] # "\n"
    /\ Strip(l) # UnitedStates

\* A heading line: a known name standing alone, or a generic heading of a
\* length CAPS_LINE takes.
IsHeadingLine(l) ==
    \/ RStrip(l) \in KnownNames
    \/ IsCapsLine(l, CapsMin + 1, CapsMax + 1)

HeadingStarts(t) == {i \in LineStarts(t) : IsHeadingLine(LineOf(t, i))}

HeadingName(t, i) == Strip(LineOf(t, i))

HeadingNames(t) == {HeadingName(t, i) : i \in HeadingStarts(t)}

DistinctHeadings(t) ==
    \A i, j \in HeadingStarts(t) : i # j => HeadingName(t, i) # HeadingName(t, j)

\* The text from after the heading line at i to before the next heading
\* line, or to the end of the text, trimmed.
SectionBody(t, i) ==
    LET nxt == Min({j \in HeadingStarts(t) : j > i} \cup {Len(t) + 1})
    IN  Strip(SubSeq(t, LineEndOf(t, i), nxt - 1))

\* One entry per heading line, in the order of the lines.
RECURSIVE SectionsFrom(_, _)
SectionsFrom(t, starts) ==
    IF starts = {} THEN <<>>
    ELSE LET i == Min(starts)
         IN  <<[name |-> HeadingName(t, i), body |-> SectionBody(t, i)]>>
             \o SectionsFrom(t, starts \ {i})

Entries(d) == {d[k] : k \in 1..Len(d)}

FallbackOf(text) == <<[name |-> FullReportText, body |-> normalize_text(text)]>>

\* C11 as stated: whenever split_sections finds no heading candidate, the
\* empty text included, the result is the one-entry mapping of "Full Report
\* Text" to the normalized text.
C11_Original ==
    (s_pc = "done" /\ found_positions(s_ft) = <<>>) => s_out = FallbackOf(s_in)

\* C11: when split_sections finds no heading candidate in a text whose
\* normalized form is not empty, the result is the one-entry mapping of
\* "Full Report Text" to the normalized text; when the normalized form is
\* empty the result is the empty mapping.
C11_Fallback ==
    (s_pc = "done" /\ found_positions(s_ft) = <<>>) =>
      /\ s_ft = normalize_text(s_in)
      /\ s_out = IF normalize_text(s_in) = <<>> THEN <<>> ELSE FallbackOf(s_in)

\* A text without a heading that normalization changes came back whole
\* under the fallback key.
C11_Witness ==
    /\ s_pc = "done"
    /\ found_positions(s_ft) = <<>>
    /\ normalize_text(s_in) # <<>>
    /\ normalize_text(s_in) # s_in
    /\ Len(s_out) = 1
    /\ s_out[1].name = FullReportText
    /\ s_out[1].body = normalize_text(s_in)

\* C12: for a text whose heading lines are pairwise distinct the result has
\* one key per heading line, in the order of the lines, each with the
\* trimmed text between its line and the next heading line (or the end).
C12_Ordering ==
    (/\ s_pc = "done"
     /\ HeadingStarts(s_ft) # {}
     /\ DistinctHeadings(s_ft))
      => s_out = SectionsFrom(s_ft, HeadingStarts(s_ft))

\* C17: when a heading line occurs more than once, every occurrence is a
\* boundary: the result has one entry per heading name, the body of a name
\* is the text after its last occurrence, up to the next heading line.
C17_Repeated ==
    (s_pc = "done" /\ ~DistinctHeadings(s_ft)) =>
      /\ Names(s_out) = HeadingNames(s_ft)
      /\ Len(s_out) = Cardinality(HeadingNames(s_ft))
      /\ \A e \in Entries(s_out) :
           e.body = SectionBody(s_ft,
                        Max({i \in HeadingStarts(s_ft) :
                               HeadingName(s_ft, i) = e.name}))

\* C18: a key outside the known vocabulary is a single line of 4 to 40
\* characters, all capitals, digits and the allowed punctuation; a line of
\* 3 or of 41 characters is never a key and no key spans two lines.
C18_GenericHeadings ==
    (s_pc = "done" /\ found_positions(s_ft) # <<>>) =>
      \A key \in Names(s_out) :
        \/ key \in KnownNames
        \/ IsCapsLine(key, 4, 40)

(***************************************************************************)
(* Properties of clean_report_text, checked under SpecClean.               *)
(***************************************************************************)
LinesOfText(t) == {LineOf(t, i) : i \in LineStarts(t)}

\* "Page N": the word, one blank, digits.
IsPageFooter(l) ==
    /\ Len(l) >= 6
    /\ SubSeq(l, 1, 5) = <<"P", "a", "g", "e", " ">>
    /\ \A k \in 6..Len(l) : l[k] \in Digits

\* A bare docket number: B-, 4 to 7 digits, and then nothing or a dot and
\* digits.
IsBareDocket(l) ==
    /\ Len(l) >= 6
    /\ SubSeq(l, 1, 2) = <<"B", "-">>
    /\ \E d \in 4..7 :
         /\ Len(l) >= 2 + d
         /\ \A k \in 3..(2 + d) : l[k] \in Digits
         /\ \/ Len(l) = 2 + d
            \/ /\ Len(l) >= 4 + d
               /\ l[3 + d] = "."
               /\ \A k \in (4 + d)..Len(l) : l[k] \in Digits

Discussion == KNOWN_ORDER[3]

\* C16: no line of the cleaned text is a "Page N" footer or a bare docket
\* number, and a line DISCUSSION standing alone in the text is a line of
\* the cleaned text and a key of its sections.
C16_Boilerplate ==
    c_pc = "done" =>
      /\ \A l \in LinesOfText(c_out) : ~IsPageFooter(l) /\ ~IsBareDocket(l)
      /\ Discussion \in LinesOfText(c_in) =>
           /\ Discussion \in LinesOfText(c_out)
           /\ Discussion \in Names(c_sections)

(***************************************************************************)
(* Termination of run(), checked under SpecCrawl.                          *)
(***************************************************************************)
\* C20: on a finite index where every request returns, run() with
\* max_pages = 0 and upto = 0 reaches its final flush and stops, whatever
\* next links the pages carry.
C20_Termination == <>(k_pc = "done")

=============================================================================
